---- MODULE Spec2Model ----
(***************************************************************************)
(* A model of seed_source_db.py: the synthetic dataset generator           *)
(* (generate_users, generate_products, generate_orders,                    *)
(* generate_order_items), the batch writer insert_data and the driver      *)
(* main with its two database connections.                                 *)
(*                                                                         *)
(* A timestamp is a record [s, us]: whole seconds since an arbitrary       *)
(* midnight, and the microsecond within the second.  datetime.replace      *)
(* (hour, minute, second) rewrites the time of day inside s and keeps us,  *)
(* as Python does.  The Faker attributes of a row (name, email, address,   *)
(* category, price) take no part in any timestamp or key and are left out  *)
(* of the rows.                                                            *)
(***************************************************************************)
EXTENDS Integers, Sequences, FiniteSets, TLC

VARIABLES
    pc,           \* position of the running function
    clock,        \* the wall clock, as datetime.now(UTC) reads it
    count,        \* the count argument of generate_users / generate_products / generate_orders
    users,        \* users_df / the list `users`
    products,     \* products_df / the list `products`
    orders,       \* orders_df / the list `orders`
    order_items,  \* order_items_df / the list `order_items`
    status,       \* generate_orders: the status drawn by the current iteration
    cursor,       \* position of the loop over the rows of a frame (iterrows)
    err,          \* the exception that left the running step, or "none"
    twin,         \* the users table of a second, independent run with the same draws
    conn,         \* main: the two connections, each "unopened", "open" or "closed"
    db,           \* main: the committed state of the tables
    txn,          \* main: the state of the tables as the open transaction sees it
    seq,          \* main: the SERIAL sequence of each source table
    table,        \* main: the table whose frame is being generated and inserted
    ret,          \* insert_data: the local list `ids`
    returned,     \* main: the ids insert_data returned for each table
    log           \* main: the calls made on the connections and the raises, in order

vars == <<pc, clock, count, users, products, orders, order_items, status,
          cursor, err, twin, conn, db, txn, seq, table, ret, returned, log>>

genVars == <<users, products, orders, order_items, status, cursor, twin>>
mainVars == <<conn, db, txn, seq, table, ret, returned, log>>

----------------------------------------------------------------------------
(* Bounds of the model *)

\* rows asked of generate_users / generate_products (main asks 100 and 50)
MaxRows == 2
\* rows of users_df handed to generate_orders
MaxUsers == 2
\* orders asked of generate_orders (main asks 500)
MaxOrders == 1
\* rows of products_df handed to generate_order_items
MaxProducts == 6
\* rows of a batch handed to insert_data by main
MaxBatch == 2
\* calls of create_source_tables / create_warehouse_tables in a row
MaxCalls == 2

----------------------------------------------------------------------------
(* datetime / timedelta arithmetic *)

Day == 24 * 60 * 60
Hour == 60 * 60

HorizonDays == 90

None == [s |-> -1, us |-> -1]

Min(a, b) == IF a < b THEN a ELSE b
Max(a, b) == IF a > b THEN a ELSE b

\* a < b and a <= b on datetimes
Lt(a, b) == a.s < b.s \/ (a.s = b.s /\ a.us < b.us)
Le(a, b) == a = b \/ Lt(a, b)

\* t + timedelta(days=n), t + timedelta(hours=n)
AddDays(t, n) == [s |-> t.s + n * Day, us |-> t.us]
AddHours(t, n) == [s |-> t.s + n * Hour, us |-> t.us]

\* t.replace(hour=h, minute=m, second=sec), time = <<h, m, sec>>: same date,
\* same microsecond
Replace(t, time) ==
    [s |-> (t.s \div Day) * Day + time[1] * Hour + time[2] * 60 + time[3],
     us |-> t.us]

\* (a - b).days: timedelta normalises to 0 <= seconds, microseconds, so
\* .days is the floor of the difference in days
DaysBetween(a, b) ==
    IF a.us >= b.us THEN (a.s - b.s) \div Day
                    ELSE (a.s - b.s - 1) \div Day

----------------------------------------------------------------------------
(* The random draws and clock readings the model enumerates *)

\* readings of datetime.now(UTC): two dates, start, middle and end of a day
NowChoices ==
    {[s |-> d * Day + t, us |-> u] :
        d \in {200, 201}, t \in {0, 12 * Hour, Day - 1}, u \in {0, 500000}}

\* draws of random.randint(0, 90): both ends of the horizon and the day before the end
DayDraws == {0, 89, 90}
\* draws of random.randint(0, 89)
OffsetDraws == {0, 89}
\* draws of (randint(0, 23), randint(0, 59), randint(0, 59))
TimeDraws == {<<0, 0, 0>>, <<23, 59, 59>>}

----------------------------------------------------------------------------
(* generate_users, generate_products *)

\* one iteration of the loop of generate_users: the row appended
UserRow(now, d, t1, off, t2, del) ==
    LET base_time == AddDays(now, -HorizonDays)
        created_at == Replace(AddDays(base_time, d), t1)
    IN  IF d = HorizonDays
        THEN [created_at |-> created_at, updated_at |-> created_at,
              deleted_at |-> None]
        ELSE LET timedelta_updated_at == Min(off, HorizonDays - d)
                 updated_at == Replace(AddDays(created_at, timedelta_updated_at), t2)
             IN  [created_at |-> created_at, updated_at |-> updated_at,
                  deleted_at |-> IF del THEN updated_at ELSE None]

\* one iteration of the loop of generate_products: the row appended
ProductRow(now, d, t1, off, t2, del) ==
    LET base_time == AddDays(now, -HorizonDays)
        created_at == Replace(AddDays(base_time, d), t1)
    IN  IF d = HorizonDays
        THEN [created_at |-> created_at, updated_at |-> created_at,
              deleted_at |-> None]
        ELSE LET timedelta_updated_at == Min(off, HorizonDays - d)
                 updated_at == Replace(AddDays(created_at, timedelta_updated_at), t2)
             IN  [created_at |-> created_at, updated_at |-> updated_at,
                  deleted_at |-> IF del THEN updated_at ELSE None]

\* for i in range(num_users): ... users.append(...)
GenerateUsersLoop ==
    /\ pc = "generate_users"
    /\ Len(users) < count
    /\ \E d \in DayDraws, t1 \in TimeDraws, off \in OffsetDraws,
          t2 \in TimeDraws, del \in BOOLEAN :
          users' = Append(users, UserRow(clock, d, t1, off, t2, del))
    /\ UNCHANGED <<pc, clock, count, products, orders, order_items, status,
                   cursor, err, twin>>
    /\ UNCHANGED mainVars

\* return pd.DataFrame(users)
GenerateUsersReturn ==
    /\ pc = "generate_users"
    /\ Len(users) >= count
    /\ pc' = "returned_users"
    /\ UNCHANGED <<clock, count, err>>
    /\ UNCHANGED genVars
    /\ UNCHANGED mainVars

\* for i in range(num_products): ... products.append(...)
GenerateProductsLoop ==
    /\ pc = "generate_products"
    /\ Len(products) < count
    /\ \E d \in DayDraws, t1 \in TimeDraws, off \in OffsetDraws,
          t2 \in TimeDraws, del \in BOOLEAN :
          products' = Append(products, ProductRow(clock, d, t1, off, t2, del))
    /\ UNCHANGED <<pc, clock, count, users, orders, order_items, status,
                   cursor, err, twin>>
    /\ UNCHANGED mainVars

\* return pd.DataFrame(products)
GenerateProductsReturn ==
    /\ pc = "generate_products"
    /\ Len(products) >= count
    /\ pc' = "returned_products"
    /\ UNCHANGED <<clock, count, err>>
    /\ UNCHANGED genVars
    /\ UNCHANGED mainVars

SourceTables == {"users", "products", "orders", "order_items"}
\* "warehouse" stands for the eight tables of raw_ingest and raw_current,
\* which create_warehouse_tables drops and creates in one transaction
Tables == SourceTables \cup {"warehouse"}

Absent == [exists |-> FALSE, rows |-> <<>>]
Fresh == [exists |-> TRUE, rows |-> <<>>]
NotReturned == [done |-> FALSE, ids |-> <<>>]

\* the state main leaves untouched while a generator runs on its own
MainIdle ==
    /\ conn = [source |-> "unopened", warehouse |-> "unopened"]
    /\ db = [t \in Tables |-> Absent]
    /\ txn = [t \in Tables |-> Absent]
    /\ seq = [t \in SourceTables |-> 0]
    /\ table = "none"
    /\ ret = <<>>
    /\ returned = [t \in SourceTables |-> NotReturned]
    /\ log = <<>>

\* a call of generate_users(count) or of generate_products(count)
InitEntities ==
    /\ pc \in {"generate_users", "generate_products"}
    /\ clock \in NowChoices
    /\ count \in -1 .. MaxRows
    /\ users = <<>>
    /\ products = <<>>
    /\ orders = <<>>
    /\ order_items = <<>>
    /\ status = "none"
    /\ cursor = 1
    /\ err = "none"
    /\ twin = <<>>
    /\ MainIdle

NextEntities ==
    \/ GenerateUsersLoop
    \/ GenerateUsersReturn
    \/ GenerateProductsLoop
    \/ GenerateProductsReturn

SpecEntities == InitEntities /\ [][NextEntities]_vars

----------------------------------------------------------------------------
(* generate_orders *)

statuses == {"pending", "shipped", "completed", "cancelled"}

\* a filter copied from the pending branch into the other two
MinAgeDaysOfPending(st) == 1

\* pd.Timedelta(days=...) of the filter of each branch
MinAgeDays(st) ==
    CASE st = "pending" -> 1
      [] st = "shipped" -> 5
      [] OTHER -> 15

\* the day window of created_at of each branch: randint(max(days_since_base, start), end)
WindowStart(st) ==
    CASE st = "pending" -> 76
      [] st = "shipped" -> 61
      [] OTHER -> 11

\* the last day of the completed branch copied into the other two
WindowEndOfCompleted(st) == 75

WindowEnd(st) ==
    CASE st = "pending" -> 90
      [] st = "shipped" -> 85
      [] OTHER -> 75

\* the days added to created_at to make updated_at: none for pending,
\* randint(1, 5) for shipped, randint(5, 15) for completed and cancelled
UpdateDayDraws(st) ==
    CASE st = "pending" -> {0}
      [] st = "shipped" -> {1, 5}
      [] OTHER -> {5, 15}

\* the draws that make updated_at, a day with a time of day: the first day at
\* 00:00:00 and the last day at 23:59:59
UpdatedAtDraws(st) ==
    {u \in UpdateDayDraws(st) \X TimeDraws :
        (\A upd \in UpdateDayDraws(st) : u[1] <= upd) <=> u[2] = <<0, 0, 0>>}

\* draws of random.randint(1, 24)
HourDraws == {1, 24}

\* users_df[users_df["created_at"] < pd.Timestamp.now(tz="UTC") - pd.Timedelta(days=k)]:
\* the positions of the rows kept
FilteredUsers(frame, now, st) ==
    {i \in 1 .. Len(frame) :
        Lt(frame[i].created_at, AddDays(now, -MinAgeDays(st)))}

\* the correction with < for <=
CorrectForwardWhenBefore(created_at, user_created, hrs) ==
    IF Lt(created_at, user_created) THEN AddHours(user_created, hrs)
                                    ELSE created_at

\* if created_at <= user_created: created_at = user_created + timedelta(hours=...)
CorrectForward(created_at, user_created, hrs) ==
    IF Le(created_at, user_created) THEN AddHours(user_created, hrs)
                                    ELSE created_at

\* the first and the last day randint(max(days_since_base, start), end) can draw
FirstDay(base_time, user_created, st) ==
    Max(DaysBetween(user_created, base_time), WindowStart(st))

\* the row one iteration appends, given the user chosen and the draws made
OrderRow(base_time, user, st, day, t1, hrs, upd, t2) ==
    LET drawn == Replace(AddDays(base_time, day), t1)
        created_at == CorrectForward(drawn, user.created_at, hrs)
        updated_at == IF st = "pending" THEN created_at
                      ELSE Replace(AddDays(created_at, upd), t2)
    IN  [user_id |-> user.id, status |-> st,
         created_at |-> created_at, updated_at |-> updated_at]

\* one iteration of the loop of generate_orders.  random.choice of an empty
\* user_ids raises IndexError, random.randint of an empty range raises
\* ValueError; either leaves generate_orders with no frame returned.
GenerateOrdersLoop ==
    /\ pc = "generate_orders"
    /\ Len(orders) < count
    /\ \E st \in statuses :
        /\ status' = st
        /\ LET base_time == AddDays(clock, -HorizonDays)
               user_ids == FilteredUsers(users, clock, st)
           IN  IF user_ids = {}
               THEN /\ pc' = "raised"
                    /\ err' = "IndexError"
                    /\ orders' = orders
               ELSE \E i \in user_ids :
                      LET first == FirstDay(base_time, users[i].created_at, st)
                      IN  IF first > WindowEnd(st)
                          THEN /\ pc' = "raised"
                               /\ err' = "ValueError"
                               /\ orders' = orders
                          ELSE \E day \in {first, WindowEnd(st)}, t1 \in TimeDraws,
                                  hrs \in HourDraws, u \in UpdatedAtDraws(st) :
                                  /\ orders' = Append(orders,
                                        OrderRow(base_time, users[i], st, day, t1,
                                                 hrs, u[1], u[2]))
                                  /\ UNCHANGED <<pc, err>>
    /\ UNCHANGED <<clock, count, users, products, order_items, cursor, twin>>
    /\ UNCHANGED mainVars

\* return pd.DataFrame(orders)
GenerateOrdersReturn ==
    /\ pc = "generate_orders"
    /\ Len(orders) >= count
    /\ pc' = "returned_orders"
    /\ UNCHANGED <<clock, count, err>>
    /\ UNCHANGED genVars
    /\ UNCHANGED mainVars

\* (day draw, time draw) of the users handed to generate_orders, around the
\* age thresholds of the three branches
UserDraws ==
    << <<0, <<0, 0, 0>> >>,
       <<75, <<0, 0, 0>> >>, <<75, <<23, 59, 59>> >>,
       <<85, <<0, 0, 0>> >>, <<85, <<23, 59, 59>> >>,
       <<89, <<0, 0, 0>> >>, <<89, <<23, 59, 59>> >> >>

\* readings of the clock by generate_users and, one second later, by
\* generate_orders: the microseconds of the two readings equal or not
ClockPairs ==
    {<<[s |-> 200 * Day + 12 * Hour, us |-> u[1]],
       [s |-> 200 * Day + 12 * Hour + 1, us |-> u[2]]>> :
        u \in {<<0, 0>>, <<0, 500000>>}}

\* users_df as main hands it on: rows of generate_users with the ids of
\* insert_data attached; picks[i] is the draw of row i
UsersFrame(now, picks) ==
    [i \in 1 .. Len(picks) |->
        LET row == UserRow(now, UserDraws[picks[i]][1], UserDraws[picks[i]][2],
                           89, <<23, 59, 59>>, FALSE)
        IN  [id |-> i, created_at |-> row.created_at,
             updated_at |-> row.updated_at, deleted_at |-> row.deleted_at]]

\* the draws of n rows, up to the order of the rows (generate_orders treats
\* the rows alike)
Picks(n, k) ==
    {p \in [1 .. n -> 1 .. k] : \A i \in 1 .. n - 1 : p[i] <= p[i + 1]}

\* a call of generate_orders(users_df, count), users_df holding at least one
\* row (a frame made of no rows has no created_at column to filter on)
InitOrders ==
    /\ pc = "generate_orders"
    /\ \E cp \in ClockPairs, n \in 1 .. MaxUsers :
        /\ clock = cp[2]
        /\ \E p \in Picks(n, Len(UserDraws)) : users = UsersFrame(cp[1], p)
    /\ count \in 0 .. MaxOrders
    /\ products = <<>>
    /\ orders = <<>>
    /\ order_items = <<>>
    /\ status = "none"
    /\ cursor = 1
    /\ err = "none"
    /\ twin = <<>>
    /\ MainIdle

NextOrders ==
    \/ GenerateOrdersLoop
    \/ GenerateOrdersReturn

SpecOrders == InitOrders /\ [][NextOrders]_vars

----------------------------------------------------------------------------
(* generate_order_items *)

\* the positions, in increasing order, of a set of positions
Sorted(S) ==
    [j \in 1 .. Cardinality(S) |->
        CHOOSE x \in S : Cardinality({y \in S : y < x}) = j - 1]

\* random.choices in place of random.sample: one element drawn k times
SampleRepeating(population, k) ==
    {[j \in 1 .. k |-> population[i]] : i \in 1 .. Len(population)}

\* random.sample(population, k): k elements at k different positions.  The
\* outcomes are enumerated up to the order of the selection.
Sample(population, k) ==
    {[j \in 1 .. k |-> population[Sorted(S)[j]]] :
        S \in {T \in SUBSET (1 .. Len(population)) : Cardinality(T) = k}}

\* the filter with <= for <
AvailableProductsUpTo(frame, order_created) ==
    SelectSeq([i \in 1 .. Len(frame) |-> frame[i].id],
              LAMBDA pid : \E i \in 1 .. Len(frame) :
                  frame[i].id = pid /\ Le(frame[i].created_at, order_created))

\* [pid for pid in product_ids if product_created_at[pid] < order_created]
AvailableProducts(frame, order_created) ==
    SelectSeq([i \in 1 .. Len(frame) |-> frame[i].id],
              LAMBDA pid : \E i \in 1 .. Len(frame) :
                  frame[i].id = pid /\ Lt(frame[i].created_at, order_created))

\* draws of random.randint(1, min(5, len(available_products))): both ends
NumItemsDraws(available_products) == {1, Min(5, Len(available_products))}

\* the draws of random.randint(1, 10) of one order, one per item: all at one
\* end of the range, or alternating between the ends
QuantityDraws(num_items) ==
    {[j \in 1 .. num_items |-> 1], [j \in 1 .. num_items |-> 10],
     [j \in 1 .. num_items |-> IF j % 2 = 1 THEN 10 ELSE 1]}

\* one iteration of `for _, order in orders_df.iterrows()`
GenerateOrderItemsLoop ==
    /\ pc = "generate_order_items"
    /\ cursor <= Len(orders)
    /\ LET order_id == orders[cursor].id
           order_created == orders[cursor].created_at
           available_products == AvailableProducts(products, order_created)
       IN  IF available_products = <<>>
           THEN order_items' = order_items
           ELSE \E num_items \in NumItemsDraws(available_products) :
                  \E selected_products \in Sample(available_products, num_items),
                     quantity \in QuantityDraws(num_items) :
                     order_items' = order_items \o
                        [j \in 1 .. num_items |->
                            [order_id |-> order_id,
                             product_id |-> selected_products[j],
                             quantity |-> quantity[j]]]
    /\ cursor' = cursor + 1
    /\ UNCHANGED <<pc, clock, count, users, products, orders, status, err, twin>>
    /\ UNCHANGED mainVars

\* return pd.DataFrame(order_items)
GenerateOrderItemsReturn ==
    /\ pc = "generate_order_items"
    /\ cursor > Len(orders)
    /\ pc' = "returned_order_items"
    /\ UNCHANGED <<clock, count, err>>
    /\ UNCHANGED genVars
    /\ UNCHANGED mainVars

\* (day draw, time draw) of the products handed to generate_order_items: one
\* at the start of the horizon, one on day 80
ProductDraws == << <<0, <<0, 0, 0>> >>, <<80, <<0, 0, 0>> >> >>

\* (day draw, time draw) of the pending orders handed to generate_order_items:
\* day 80, at the time of day of the later product and after it
OrderDraws == << <<80, <<0, 0, 0>> >>, <<80, <<23, 59, 59>> >> >>

\* products_df as main hands it on: rows of generate_products with the ids
\* of insert_data attached
ProductsFrame(now, picks) ==
    [i \in 1 .. Len(picks) |->
        LET row == ProductRow(now, ProductDraws[picks[i]][1],
                              ProductDraws[picks[i]][2], 89, <<23, 59, 59>>, FALSE)
        IN  [id |-> i, created_at |-> row.created_at,
             updated_at |-> row.updated_at, deleted_at |-> row.deleted_at]]

\* orders_df as main hands it on: pending rows of generate_orders for a user
\* created at the start of the horizon, with the ids of insert_data attached
OrdersFrame(userNow, now, picks) ==
    [k \in 1 .. Len(picks) |->
        LET row == OrderRow(AddDays(now, -HorizonDays), UsersFrame(userNow, <<1>>)[1],
                            "pending", OrderDraws[picks[k]][1],
                            OrderDraws[picks[k]][2], 1, 0, <<0, 0, 0>>)
        IN  [id |-> k, user_id |-> row.user_id, status |-> row.status,
             created_at |-> row.created_at, updated_at |-> row.updated_at]]

\* a call of generate_order_items(orders_df, products_df), products_df
\* holding at least one row (a frame made of no rows has no created_at column)
InitItems ==
    /\ pc = "generate_order_items"
    /\ \E cp \in ClockPairs :
        /\ clock = cp[2]
        /\ users = UsersFrame(cp[1], <<1>>)
        /\ \E n \in 1 .. MaxProducts :
             \E p \in Picks(n, Len(ProductDraws)) : products = ProductsFrame(cp[1], p)
        /\ \E n \in 0 .. MaxOrders :
             \E p \in Picks(n, Len(OrderDraws)) : orders = OrdersFrame(cp[1], cp[2], p)
    /\ count = 0
    /\ order_items = <<>>
    /\ status = "none"
    /\ cursor = 1
    /\ err = "none"
    /\ twin = <<>>
    /\ MainIdle

NextItems ==
    \/ GenerateOrderItemsLoop
    \/ GenerateOrderItemsReturn

SpecItems == InitItems /\ [][NextItems]_vars

----------------------------------------------------------------------------
(* insert_data and main.  A frame is a sequence of rows [n |-> k]; the      *)
(* contents of the rows play no part in the control flow of main.  Every   *)
(* call on a connection either returns or raises.                          *)

\* conn.autocommit = True set on the connection
AutocommitOn == TRUE

\* psycopg2.connect(...): a connection opens with autocommit off
Autocommit == FALSE

\* what a statement executed by the open transaction leaves committed
AfterExecute(committed, working) ==
    IF Autocommit THEN working ELSE committed

\* a finally block that does not close
CloseSkipped(c, which) == c

\* conn.close() / dw_conn.close()
Close(c, which) == [c EXCEPT ![which] = "closed"]

\* an except block that ends without `raise`
Swallow(e) == "none"

\* the bare `raise` of an except block: the exception caught goes on
Reraise(e) == e

Call(on, call) == [on |-> on, call |-> call]

\* the frame of a table, and the frames with that of one table changed
Frame(t) ==
    CASE t = "users" -> users
      [] t = "products" -> products
      [] t = "orders" -> orders
      [] OTHER -> order_items

FramesBecome(t, frame) ==
    /\ users' = IF t = "users" THEN frame ELSE users
    /\ products' = IF t = "products" THEN frame ELSE products
    /\ orders' = IF t = "orders" THEN frame ELSE orders
    /\ order_items' = IF t = "order_items" THEN frame ELSE order_items

\* the order of the four batches of main
NextTable(t) ==
    CASE t = "users" -> "products"
      [] t = "products" -> "orders"
      [] t = "orders" -> "order_items"
      [] OTHER -> "none"

\* the generator main calls for a table
Generator(t) ==
    CASE t = "users" -> "generate_users"
      [] t = "products" -> "generate_products"
      [] t = "orders" -> "generate_orders"
      [] OTHER -> "generate_order_items"

\* an exception leaves a step of the try block of a phase
Raise(step, handler) ==
    /\ err' = step
    /\ pc' = handler
    /\ log' = Append(log, Call(step, "raise"))

\* conn = get_src_db_connection(), before the try block
ConnectSource ==
    /\ pc = "get_src_db_connection"
    /\ \/ /\ conn' = [conn EXCEPT !.source = "open"]
          /\ log' = Append(log, Call("source", "connect"))
          /\ pc' = "create_source_tables"
          /\ err' = err
       \/ /\ Raise("get_src_db_connection", "exit")
          /\ conn' = conn
    /\ UNCHANGED <<clock, count, db, txn, seq, table, ret, returned>>
    /\ UNCHANGED genVars

\* the tables as DROP TABLE IF EXISTS / CREATE TABLE leave them
Dropped(state, which) == [t \in Tables |-> IF t \in which THEN Absent ELSE state[t]]
Created(state, which) == [t \in Tables |-> IF t \in which THEN Fresh ELSE state[t]]

\* create_source_tables(conn): the DROPs, the CREATEs and the commit; any of
\* them may raise
CreateSourceTables ==
    /\ pc = "create_source_tables"
    /\ \/ /\ Raise("create_source_tables", "except_source")
          /\ \E working \in {txn, Dropped(txn, SourceTables),
                             Created(txn, SourceTables)} :
                /\ txn' = working
                /\ db' = AfterExecute(db, working)
          /\ UNCHANGED <<seq, table>>
       \/ /\ txn' = Created(txn, SourceTables)
          /\ db' = Created(txn, SourceTables)
          /\ seq' = [t \in SourceTables |-> 0]
          /\ log' = Append(log, Call("source", "commit"))
          /\ pc' = "generate"
          /\ table' = "users"
          /\ err' = err
    /\ UNCHANGED <<clock, count, conn, ret, returned>>
    /\ UNCHANGED genVars

\* the "id" column of a frame: frame["id"], a KeyError before the ids are
\* attached (the function is then applied outside its domain)
IdColumn(frame) == {frame[k].id : k \in 1 .. Len(frame)}

\* the ids drawn from a parent frame: the least and the greatest of its "id"
\* column
ParentDraws(frame) ==
    {id \in IdColumn(frame) :
        \/ \A other \in IdColumn(frame) : id <= other
        \/ \A other \in IdColumn(frame) : id >= other}

\* the frames a generator of main may return, a row being its position n and
\* the ids it takes from its parents: generate_orders draws user_id from
\* users_df["id"], generate_order_items takes order_id from orders_df and
\* product_id from products_df
Generated(t) ==
    CASE t = "orders" ->
            UNION {{[k \in 1 .. n |-> [n |-> k, user_id |-> user_id[k]]] :
                       user_id \in [1 .. n -> ParentDraws(users)]} :
                   n \in 1 .. MaxBatch}
      [] t = "order_items" ->
            UNION {{[k \in 1 .. n |->
                        [n |-> k, order_id |-> order_id[k],
                         product_id |-> product_id[k]]] :
                       order_id \in [1 .. n -> ParentDraws(orders)],
                       product_id \in [1 .. n -> ParentDraws(products)]} :
                   n \in 0 .. MaxBatch}
      [] OTHER -> {[k \in 1 .. n |-> [n |-> k]] : n \in 1 .. MaxBatch}

\* ids.prepend in place of ids.append
CollectedFirst(ids, id) == <<id>> \o ids

\* ids.append(cur.fetchone()[0])
Collected(ids, id) == Append(ids, id)

\* df["id"] = ids
WithIds(frame, ids) == [k \in 1 .. Len(frame) |-> frame[k] @@ [id |-> ids[k]]]

\* users_df = generate_users(...), ..., order_items_df = generate_order_items(...):
\* a frame of some rows, none only for order_items (when no order has an
\* earlier product); generate_orders raises when no user is eligible
Generate ==
    /\ pc = "generate"
    /\ \/ /\ \E frame \in Generated(table) : FramesBecome(table, frame)
          /\ pc' = "insert_data"
          /\ cursor' = 1
          /\ ret' = <<>>
          /\ UNCHANGED <<err, log>>
       \/ /\ table = "orders"
          /\ Raise("generate_orders", "except_source")
          /\ UNCHANGED <<users, products, orders, order_items, cursor, ret>>
    /\ UNCHANGED <<clock, count, status, twin, conn, db, txn, seq, table, returned>>

\* insert_data: one iteration of `for _, row in df.iterrows()`:
\* cur.execute(insert_query, ...) and ids.append(cur.fetchone()[0])
InsertRow ==
    /\ pc = "insert_data"
    /\ cursor <= Len(Frame(table))
    /\ \/ /\ seq' = [seq EXCEPT ![table] = @ + 1]
          /\ txn' = [txn EXCEPT ![table].rows = Append(@, seq[table] + 1)]
          /\ db' = AfterExecute(db, txn')
          /\ ret' = Collected(ret, seq[table] + 1)
          /\ cursor' = cursor + 1
          /\ UNCHANGED <<pc, err, log>>
       \/ /\ Raise("insert_data", "except_source")
          /\ ret' = <<>>
          /\ UNCHANGED <<seq, txn, db, cursor>>
    /\ UNCHANGED <<clock, count, users, products, orders, order_items, status,
                   twin, conn, table, returned>>

\* insert_data after the loop: conn.commit() and return ids; main attaches
\* the ids to the frame (users_df["id"] = user_ids, ...) and goes on
CommitBatch ==
    /\ pc = "insert_data"
    /\ cursor > Len(Frame(table))
    /\ \/ /\ db' = txn
          /\ log' = Append(log, Call("source", "commit"))
          /\ returned' = [returned EXCEPT ![table] = [done |-> TRUE, ids |-> ret]]
          /\ IF table = "order_items"
             THEN UNCHANGED <<users, products, orders, order_items>>
             ELSE FramesBecome(table, WithIds(Frame(table), ret))
          /\ ret' = <<>>
          /\ table' = NextTable(table)
          /\ pc' = IF table = "order_items" THEN "print_summary" ELSE "generate"
          /\ err' = err
       \/ /\ Raise("insert_data", "except_source")
          /\ ret' = <<>>
          /\ UNCHANGED <<db, returned, table, users, products, orders, order_items>>
    /\ UNCHANGED <<clock, count, status, cursor, twin, conn, txn, seq>>

\* print_summary(conn): the SELECTs
PrintSummary ==
    /\ pc = "print_summary"
    /\ \/ /\ pc' = "finally_source"
          /\ UNCHANGED <<err, log>>
       \/ Raise("print_summary", "except_source")
    /\ UNCHANGED <<clock, count, conn, db, txn, seq, table, ret, returned>>
    /\ UNCHANGED genVars

\* except Exception as e: conn.rollback(); raise
ExceptSource ==
    /\ pc = "except_source"
    /\ txn' = db
    /\ log' = Append(log, Call("source", "rollback"))
    /\ err' = Reraise(err)
    /\ pc' = "finally_source"
    /\ UNCHANGED <<clock, count, conn, db, seq, table, ret, returned>>
    /\ UNCHANGED genVars

\* finally: conn.close(); then the exception, if any, leaves main
FinallySource ==
    /\ pc = "finally_source"
    /\ conn' = Close(conn, "source")
    /\ txn' = db
    /\ log' = Append(log, Call("source", "close"))
    /\ pc' = IF err = "none" THEN "get_dwh_db_connection" ELSE "exit"
    /\ UNCHANGED <<clock, count, err, db, seq, table, ret, returned>>
    /\ UNCHANGED genVars

\* dw_conn = get_dwh_db_connection(), before the second try block
ConnectWarehouse ==
    /\ pc = "get_dwh_db_connection"
    /\ \/ /\ conn' = [conn EXCEPT !.warehouse = "open"]
          /\ log' = Append(log, Call("warehouse", "connect"))
          /\ pc' = "create_warehouse_tables"
          /\ err' = err
       \/ /\ Raise("get_dwh_db_connection", "exit")
          /\ conn' = conn
    /\ UNCHANGED <<clock, count, db, txn, seq, table, ret, returned>>
    /\ UNCHANGED genVars

\* create_warehouse_tables(dw_conn): CREATE SCHEMA IF NOT EXISTS, the DROPs,
\* the CREATEs and the commit; any of them may raise
CreateWarehouseTables ==
    /\ pc = "create_warehouse_tables"
    /\ \/ /\ Raise("create_warehouse_tables", "except_warehouse")
          /\ \E working \in {txn, Dropped(txn, {"warehouse"}),
                             Created(txn, {"warehouse"})} :
                /\ txn' = working
                /\ db' = AfterExecute(db, working)
       \/ /\ txn' = Created(txn, {"warehouse"})
          /\ db' = Created(txn, {"warehouse"})
          /\ log' = Append(log, Call("warehouse", "commit"))
          /\ pc' = "finally_warehouse"
          /\ err' = err
    /\ UNCHANGED <<clock, count, conn, seq, table, ret, returned>>
    /\ UNCHANGED genVars

\* except Exception as e: dw_conn.rollback(); raise
ExceptWarehouse ==
    /\ pc = "except_warehouse"
    /\ txn' = db
    /\ log' = Append(log, Call("warehouse", "rollback"))
    /\ err' = Reraise(err)
    /\ pc' = "finally_warehouse"
    /\ UNCHANGED <<clock, count, conn, db, seq, table, ret, returned>>
    /\ UNCHANGED genVars

\* finally: dw_conn.close(); main returns, or the exception leaves it
FinallyWarehouse ==
    /\ pc = "finally_warehouse"
    /\ conn' = Close(conn, "warehouse")
    /\ txn' = db
    /\ log' = Append(log, Call("warehouse", "close"))
    /\ pc' = "exit"
    /\ UNCHANGED <<clock, count, err, db, seq, table, ret, returned>>
    /\ UNCHANGED genVars

\* the tables of a database before the run: absent, empty, or holding the
\* rows a previous run left
Before == {Absent, Fresh, [exists |-> TRUE, rows |-> <<1, 2>>]}

\* a run of main
InitMain ==
    /\ pc = "get_src_db_connection"
    /\ clock = [s |-> 200 * Day + 12 * Hour, us |-> 0]
    /\ count = 0
    /\ users = <<>>
    /\ products = <<>>
    /\ orders = <<>>
    /\ order_items = <<>>
    /\ status = "none"
    /\ cursor = 1
    /\ err = "none"
    /\ twin = <<>>
    /\ conn = [source |-> "unopened", warehouse |-> "unopened"]
    /\ \E src \in Before, dwh \in Before :
          db = [t \in Tables |-> IF t = "warehouse" THEN dwh ELSE src]
    /\ txn = db
    /\ seq = [t \in SourceTables |-> Len(db[t].rows)]
    /\ table = "none"
    /\ ret = <<>>
    /\ returned = [t \in SourceTables |-> NotReturned]
    /\ log = <<>>

NextMain ==
    \/ ConnectSource
    \/ CreateSourceTables
    \/ Generate
    \/ InsertRow
    \/ CommitBatch
    \/ PrintSummary
    \/ ExceptSource
    \/ FinallySource
    \/ ConnectWarehouse
    \/ CreateWarehouseTables
    \/ ExceptWarehouse
    \/ FinallyWarehouse

SpecMain == InitMain /\ [][NextMain]_vars

----------------------------------------------------------------------------
(* Two runs of generate_users under one seed.  Faker.seed(42) and           *)
(* random.seed(42) make the draws of a run a fixed sequence, so the two     *)
(* runs make the same draws; each reads its own clock.                      *)

\* the second run starts at the instant of the first, half a second later,
\* or a day later
TwinClocks(now) ==
    {now, [s |-> now.s, us |-> now.us + 500000], AddDays(now, 1)}

\* one iteration of the loop of generate_users in both runs, on the same draws
GenerateUsersLoopTwice ==
    /\ pc = "generate_users"
    /\ Len(users) < count
    /\ \E d \in DayDraws, t1 \in TimeDraws, off \in OffsetDraws,
          t2 \in TimeDraws, del \in BOOLEAN :
          /\ users' = Append(users, UserRow(clock, d, t1, off, t2, del))
          /\ twin' = [twin EXCEPT
                        !.users = Append(@, UserRow(twin.clock, d, t1, off, t2, del))]
    /\ UNCHANGED <<pc, clock, count, products, orders, order_items, status,
                   cursor, err>>
    /\ UNCHANGED mainVars

\* return pd.DataFrame(users), in both runs
GenerateUsersReturnTwice ==
    /\ pc = "generate_users"
    /\ Len(users) >= count
    /\ pc' = "returned_users"
    /\ UNCHANGED <<clock, count, err>>
    /\ UNCHANGED genVars
    /\ UNCHANGED mainVars

InitTwoRuns ==
    /\ pc = "generate_users"
    /\ clock = [s |-> 200 * Day + 12 * Hour, us |-> 0]
    /\ \E c \in TwinClocks(clock) : twin = [clock |-> c, users |-> <<>>]
    /\ count \in 0 .. MaxRows
    /\ users = <<>>
    /\ products = <<>>
    /\ orders = <<>>
    /\ order_items = <<>>
    /\ status = "none"
    /\ cursor = 1
    /\ err = "none"
    /\ MainIdle

NextTwoRuns ==
    \/ GenerateUsersLoopTwice
    \/ GenerateUsersReturnTwice

SpecTwoRuns == InitTwoRuns /\ [][NextTwoRuns]_vars

----------------------------------------------------------------------------
(* Claims about generate_users and generate_products, checked under        *)
(* SpecEntities and SpecTwoRuns                                            *)

\* C2: for every user and every product generated, updated_at >= created_at,
\* and deleted_at >= updated_at when deleted_at is set.
C2_LifecycleOrdered ==
    \A frame \in {users, products} :
        \A i \in 1 .. Len(frame) :
            /\ Le(frame[i].created_at, frame[i].updated_at)
            /\ frame[i].deleted_at # None =>
                  Le(frame[i].updated_at, frame[i].deleted_at)

\* the timestamps of a frame of users or products
Timestamps(frame) ==
    UNION {{frame[i].created_at, frame[i].updated_at, frame[i].deleted_at} :
              i \in 1 .. Len(frame)} \ {None}

\* C5: every timestamp of every generated row lies in the horizon: not
\* earlier than generation time minus 90 days, not later than generation time.
C5_WithinHorizon ==
    \A t \in Timestamps(users) \cup Timestamps(products)
             \cup {orders[k].created_at : k \in 1 .. Len(orders)}
             \cup {orders[k].updated_at : k \in 1 .. Len(orders)} :
        /\ Le(AddDays(clock, -90), t)
        /\ Le(t, clock)

\* C10: two runs of the generator under one seed produce the same table,
\* whenever each of them starts.
C10_SameSeedSameTable ==
    pc = "returned_users" => twin.users = users

----------------------------------------------------------------------------
(* Claims about generate_orders, checked under SpecOrders *)

\* the row of users_df an order names
UserOf(order) == CHOOSE i \in 1 .. Len(users) : users[i].id = order.user_id

\* C1: for every order generate_orders produces, whatever its status, the
\* created_at of the user named by user_id is strictly earlier than the
\* created_at of the order.
C1_UserCreatedBeforeOrder ==
    \A k \in 1 .. Len(orders) :
        /\ \E i \in 1 .. Len(users) : users[i].id = orders[k].user_id
        /\ Lt(users[UserOf(orders[k])].created_at, orders[k].created_at)

\* C1 witness: an order whose drawn created_at was not after its user's and
\* was moved forward to one hour after the user's created_at (no time of
\* day drawn for an order lies one hour after one drawn for a user).
C1_Witness ==
    \E k \in 1 .. Len(orders) :
        orders[k].created_at = AddHours(users[UserOf(orders[k])].created_at, 1)

\* the age, in days, a user must exceed to be the parent of an order of a status
C9_Age(st) ==
    IF st = "pending" THEN 1 ELSE IF st = "shipped" THEN 5 ELSE 15

\* the users older than the minimum age of a status, by the clock
C9_Old(st) ==
    {i \in 1 .. Len(users) :
        LET u == users[i].created_at
            limit == clock.s - C9_Age(st) * 24 * 3600
        IN  u.s < limit \/ (u.s = limit /\ u.us < clock.us)}

\* C9: every iteration of generate_orders either appends one order of the
\* drawn status whose user is older than the minimum age of that status
\* (1 day pending, 5 days shipped, 15 days completed and cancelled), or, when
\* no user is that old, raises and appends nothing.
C9_OnlyEligibleParents ==
    [][(pc = "generate_orders" /\ Len(orders) < count) =>
          IF C9_Old(status') = {}
          THEN pc' = "raised" /\ err' = "IndexError" /\ orders' = orders
          ELSE /\ pc' = "generate_orders"
               /\ Len(orders') = Len(orders) + 1
               /\ SubSeq(orders', 1, Len(orders)) = orders
               /\ orders'[Len(orders')].status = status'
               /\ \E i \in C9_Old(status') :
                    orders'[Len(orders')].user_id = users[i].id]_vars

\* C9 witness: users exist, one of them old enough for a pending order, yet
\* none is old enough for the status drawn, and the call has raised.
C9_Witness ==
    /\ pc = "raised"
    /\ err = "IndexError"
    /\ status \in {"completed", "cancelled"}
    /\ C9_Old("pending") # {}
    /\ C9_Old(status) = {}

----------------------------------------------------------------------------
(* Claims about generate_order_items, checked under SpecItems *)

\* the rows of order_items of one order, by position
ItemsOf(order) ==
    {j \in 1 .. Len(order_items) : order_items[j].order_id = order.id}

\* the products created strictly before an order
CreatedBefore(order) ==
    {i \in 1 .. Len(products) :
        \/ products[i].created_at.s < order.created_at.s
        \/ /\ products[i].created_at.s = order.created_at.s
           /\ products[i].created_at.us < order.created_at.us}

\* C3: for every order item, the created_at of the product it names is
\* strictly earlier than the created_at of its parent order.
C3_ProductCreatedBeforeOrder ==
    \A j \in 1 .. Len(order_items) :
        \E k \in 1 .. Len(orders) :
            /\ orders[k].id = order_items[j].order_id
            /\ \E i \in CreatedBefore(orders[k]) :
                 products[i].id = order_items[j].product_id

\* C3 witness: an order has items although a product exists that was
\* created in the very second of the order and not before it.
C3_Witness ==
    \E k \in 1 .. Len(orders) :
        /\ ItemsOf(orders[k]) # {}
        /\ \E i \in 1 .. Len(products) :
             /\ i \notin CreatedBefore(orders[k])
             /\ products[i].created_at.s = orders[k].created_at.s

\* C4: an order with no product created strictly before it contributes no
\* item and raises no error; any other contributes between 1 and
\* min(5, number of such products) items, naming pairwise distinct products,
\* each with a quantity in 1..10; every order_id of the result is the id of
\* an order passed in.
C4_ItemsPerOrder ==
    /\ err = "none"
    /\ \A j \in 1 .. Len(order_items) :
          \E k \in 1 .. Len(orders) : orders[k].id = order_items[j].order_id
    /\ \A k \in 1 .. Len(orders) :
          LET items == ItemsOf(orders[k])
              eligible == Cardinality(CreatedBefore(orders[k]))
          IN  IF k >= cursor \/ eligible = 0
              THEN items = {}
              ELSE /\ Cardinality(items) >= 1
                   /\ Cardinality(items) <= 5
                   /\ Cardinality(items) <= eligible
                   /\ \A a, b \in items :
                        a # b => order_items[a].product_id # order_items[b].product_id
                   /\ \A a \in items : order_items[a].quantity \in 1 .. 10

\* C4 witness: an order with more than 5 products created before it has
\* exactly 5 items, with both ends of the quantity range among them.
C4_Witness ==
    \E k \in 1 .. Len(orders) :
        /\ Cardinality(CreatedBefore(orders[k])) > 5
        /\ Cardinality(ItemsOf(orders[k])) = 5
        /\ \E a, b \in ItemsOf(orders[k]) :
             order_items[a].quantity = 1 /\ order_items[b].quantity = 10

\* an order passed in with products in the frame, none created before it,
\* has been passed over with no item
C4_WitnessSkipped ==
    \E k \in 1 .. Len(orders) :
        /\ k < cursor
        /\ Len(products) > 0
        /\ CreatedBefore(orders[k]) = {}
        /\ ItemsOf(orders[k]) = {}

----------------------------------------------------------------------------
(* Claims about insert_data and main, checked under SpecMain *)

\* create_source_tables has committed: the source tables are those of this run
SchemaCreated == \E i \in 1 .. Len(log) : log[i] = Call("source", "commit")

\* C6: a batch write is all-or-nothing.  Once the tables of the run exist,
\* the committed rows of each table are either none, with no ids returned
\* for it, or the whole batch, committed together, with one id returned per
\* row of the frame; an error raised by insert_data reaches the caller of
\* main with nothing of its batch committed.
C6_BatchAllOrNothing ==
    /\ SchemaCreated =>
          \A t \in SourceTables :
              IF returned[t].done
              THEN /\ db[t].rows = returned[t].ids
                   /\ Len(returned[t].ids) = Len(Frame(t))
              ELSE /\ db[t].rows = <<>>
                   /\ returned[t].ids = <<>>
    /\ err = "insert_data" =>
          /\ ~returned[table].done
          /\ db[table].rows = <<>>
          /\ ret = <<>>
    /\ (pc = "exit" /\ err = "none") => \A t \in SourceTables : returned[t].done

\* C6 witness: the batch of users was committed whole; a row of the batch
\* of products was inserted, then insert_data raised: main has ended with
\* that error and no product committed.
C6_Witness ==
    /\ pc = "exit"
    /\ err = "insert_data"
    /\ table = "products"
    /\ Len(db["users"].rows) = 2
    /\ returned["users"].done
    /\ seq["products"] >= 1
    /\ db["products"].rows = <<>>

\* the calls logged on one connection, in order
CallsOn(which) == SelectSeq(log, LAMBDA e : e.on = which)

\* C7: the two connections are never open together, the source connection
\* is closed before the warehouse connection is opened, and when main ends,
\* by return or by an exception, every connection it opened is closed, close
\* being the last call made on it.
C7_ConnectionsClosed ==
    /\ ~(conn.source = "open" /\ conn.warehouse = "open")
    /\ conn.warehouse # "unopened" => conn.source = "closed"
    /\ pc = "exit" =>
          \A c \in {"source", "warehouse"} :
              /\ conn[c] # "open"
              /\ CallsOn(c) # <<>> =>
                    /\ CallsOn(c)[1].call = "connect"
                    /\ CallsOn(c)[Len(CallsOn(c))].call = "close"
                    /\ conn[c] = "closed"

\* C7 witness: main has ended with the error of create_warehouse_tables,
\* both connections opened and closed.
C7_Witness ==
    /\ pc = "exit"
    /\ err = "create_warehouse_tables"
    /\ conn = [source |-> "closed", warehouse |-> "closed"]

\* the steps inside the try block of each phase, and the connection of each
TrySteps ==
    [source |-> {"create_source_tables", "generate_orders", "insert_data",
                 "print_summary"},
     warehouse |-> {"create_warehouse_tables"}]

\* the positions of the raises in the log
Raises == {i \in 1 .. Len(log) : log[i].call = "raise"}

\* C8: when a step of a phase raises, the transaction of the connection of
\* that phase is rolled back, then the connection is closed, the same error
\* leaves main, and nothing else is attempted: no call follows but that
\* rollback and that close, so after a failure of the source phase the
\* warehouse connection is never opened, and no connection is opened twice.
C8_RollbackCloseReraise ==
    /\ Cardinality(Raises) <= 1
    /\ \A i \in Raises :
          /\ err = log[i].on
          /\ \A c \in {"source", "warehouse"} :
                log[i].on \in TrySteps[c] =>
                    /\ \E n \in 0 .. 2 :
                          SubSeq(log, i + 1, Len(log)) =
                             SubSeq(<<Call(c, "rollback"), Call(c, "close")>>, 1, n)
                    /\ pc = "exit" => Len(log) = i + 2
          /\ log[i].on \in TrySteps.source => conn.warehouse = "unopened"
    /\ \A c \in {"source", "warehouse"} :
          Cardinality({i \in 1 .. Len(log) : log[i] = Call(c, "connect")}) <= 1

\* C8 witness: a batch insert raised on the source connection; main has
\* ended with that error after rollback and close, the warehouse unopened.
C8_Witness ==
    /\ pc = "exit"
    /\ err = "insert_data"
    /\ Len(log) >= 3
    /\ SubSeq(log, Len(log) - 2, Len(log)) =
          <<Call("insert_data", "raise"), Call("source", "rollback"),
            Call("source", "close")>>
    /\ conn = [source |-> "closed", warehouse |-> "unopened"]

----------------------------------------------------------------------------
(* create_source_tables and create_warehouse_tables, statement by          *)
(* statement, on a database in any state.  A database maps each table (and *)
(* each schema) to Absent or to [exists |-> TRUE, rows |-> ...].  The      *)
(* source tables live in the schema public, which always exists.           *)

WarehouseSchemas == {"raw_ingest", "raw_current"}

WarehouseTables ==
    {"raw_ingest.users", "raw_ingest.products", "raw_ingest.orders",
     "raw_ingest.order_items", "raw_current.users", "raw_current.products",
     "raw_current.orders", "raw_current.order_items"}

\* the schema a table name is qualified with
SchemaOf(t) ==
    CASE t \in {"raw_ingest.users", "raw_ingest.products", "raw_ingest.orders",
                "raw_ingest.order_items"} -> "raw_ingest"
      [] t \in WarehouseTables -> "raw_current"
      [] OTHER -> "public"

SchemaExists(state, schema) == schema = "public" \/ state[schema].exists

CreateSchema(schema) == [op |-> "CREATE SCHEMA IF NOT EXISTS", on |-> schema, refs |-> {}]
DropTable(t) == [op |-> "DROP TABLE IF EXISTS", on |-> t, refs |-> {}]
CreateTable(t, refs) == [op |-> "CREATE TABLE", on |-> t, refs |-> refs]

\* the statements of create_source_tables, in order; refs are the tables
\* the REFERENCES clauses name
SourceStatements ==
    <<DropTable("order_items"), DropTable("orders"), DropTable("products"),
      DropTable("users"),
      CreateTable("users", {}), CreateTable("products", {}),
      CreateTable("orders", {"users"}),
      CreateTable("order_items", {"orders", "products"})>>

\* create_warehouse_tables without the DROP of raw_current.users
WarehouseStatementsOneDropShort ==
    <<CreateSchema("raw_ingest"), CreateSchema("raw_current"),
      DropTable("raw_ingest.order_items"), DropTable("raw_ingest.orders"),
      DropTable("raw_ingest.products"), DropTable("raw_ingest.users"),
      DropTable("raw_current.order_items"), DropTable("raw_current.orders"),
      DropTable("raw_current.products"),
      CreateTable("raw_ingest.users", {}), CreateTable("raw_ingest.products", {}),
      CreateTable("raw_ingest.orders", {}), CreateTable("raw_ingest.order_items", {}),
      CreateTable("raw_current.users", {}), CreateTable("raw_current.products", {}),
      CreateTable("raw_current.orders", {}), CreateTable("raw_current.order_items", {})>>

\* the statements of create_warehouse_tables, in order (no constraints)
WarehouseStatements ==
    <<CreateSchema("raw_ingest"), CreateSchema("raw_current"),
      DropTable("raw_ingest.order_items"), DropTable("raw_ingest.orders"),
      DropTable("raw_ingest.products"), DropTable("raw_ingest.users"),
      DropTable("raw_current.order_items"), DropTable("raw_current.orders"),
      DropTable("raw_current.products"), DropTable("raw_current.users"),
      CreateTable("raw_ingest.users", {}), CreateTable("raw_ingest.products", {}),
      CreateTable("raw_ingest.orders", {}), CreateTable("raw_ingest.order_items", {}),
      CreateTable("raw_current.users", {}), CreateTable("raw_current.products", {}),
      CreateTable("raw_current.orders", {}), CreateTable("raw_current.order_items", {})>>

\* cur.execute of one statement: the database it leaves and the error it
\* raises, "none" when it raises none
Execute(state, st) ==
    CASE st.op = "CREATE SCHEMA IF NOT EXISTS" ->
            [state |-> IF state[st.on].exists THEN state
                       ELSE [state EXCEPT ![st.on] = Fresh],
             error |-> "none"]
      [] st.op = "DROP TABLE IF EXISTS" ->
            [state |-> [state EXCEPT ![st.on] = Absent], error |-> "none"]
      [] OTHER ->
            IF ~SchemaExists(state, SchemaOf(st.on))
            THEN [state |-> state, error |-> "InvalidSchemaName"]
            ELSE IF state[st.on].exists
            THEN [state |-> state, error |-> "DuplicateTable"]
            ELSE IF \E r \in st.refs : ~state[r].exists
            THEN [state |-> state, error |-> "UndefinedTable"]
            ELSE [state |-> [state EXCEPT ![st.on] = Fresh], error |-> "none"]

\* the statements of a function executed one after the other, up to the
\* first that raises
RECURSIVE ExecuteAll(_, _)
ExecuteAll(state, statements) ==
    IF statements = <<>>
    THEN [state |-> state, error |-> "none"]
    ELSE LET first == Execute(state, Head(statements))
         IN  IF first.error # "none" THEN first
             ELSE ExecuteAll(first.state, Tail(statements))

\* one call of create_source_tables(conn) or create_warehouse_tables(conn):
\* the statements, then conn.commit(); a statement that raises leaves the
\* function before the commit
Provision(function, statements, which) ==
    /\ pc = function
    /\ Len(log) < MaxCalls
    /\ LET done == ExecuteAll(txn, statements)
       IN  /\ txn' = done.state
           /\ IF done.error = "none"
              THEN /\ db' = done.state
                   /\ log' = Append(log, Call(which, "commit"))
                   /\ UNCHANGED <<pc, err>>
              ELSE /\ db' = db
                   /\ Raise(done.error, "raised")
    /\ UNCHANGED <<clock, count, conn, seq, table, ret, returned>>
    /\ UNCHANGED genVars

ProvisionSource == Provision("create_source_tables", SourceStatements, "source")

ProvisionWarehouse ==
    Provision("create_warehouse_tables", WarehouseStatements, "warehouse")

\* the source database before the calls: each table absent, empty or with rows
SourceBefore == [SourceTables -> Before]

\* the warehouse database before the calls: each schema absent or present,
\* each table of a present schema absent, empty or with rows
WarehouseBefore ==
    {[o \in WarehouseSchemas \cup WarehouseTables |->
         IF o \in WarehouseSchemas
         THEN IF o \in present THEN Fresh ELSE Absent
         ELSE IF SchemaOf(o) \in present THEN tables[o] ELSE Absent] :
        present \in SUBSET WarehouseSchemas, tables \in [WarehouseTables -> Before]}

\* calls in a row of one of the two functions on an open connection
InitProvision ==
    /\ \/ /\ pc = "create_source_tables"
          /\ conn = [source |-> "open", warehouse |-> "unopened"]
          /\ db \in SourceBefore
       \/ /\ pc = "create_warehouse_tables"
          /\ conn = [source |-> "closed", warehouse |-> "open"]
          /\ db \in WarehouseBefore
    /\ txn = db
    /\ clock = [s |-> 200 * Day + 12 * Hour, us |-> 0]
    /\ count = 0
    /\ users = <<>>
    /\ products = <<>>
    /\ orders = <<>>
    /\ order_items = <<>>
    /\ status = "none"
    /\ cursor = 1
    /\ err = "none"
    /\ twin = <<>>
    /\ seq = [t \in SourceTables |-> 0]
    /\ table = "none"
    /\ ret = <<>>
    /\ returned = [t \in SourceTables |-> NotReturned]
    /\ log = <<>>

NextProvision ==
    \/ ProvisionSource
    \/ ProvisionWarehouse

SpecProvision == InitProvision /\ [][NextProvision]_vars

----------------------------------------------------------------------------
(* Claim about schema provisioning, checked under SpecProvision *)

\* C11: from any state of the database, one call or two calls in a row of
\* create_source_tables (of create_warehouse_tables) raise no error, and
\* after each call exactly the provisioned tables exist (with the two
\* schemas, in the warehouse), all of them empty: the second call ends in
\* the state the first ended in.
C11_ProvisioningIdempotent ==
    /\ err = "none"
    /\ pc # "raised"
    /\ Len(log) >= 1 =>
          /\ DOMAIN db = IF pc = "create_source_tables" THEN SourceTables
                         ELSE WarehouseSchemas \cup WarehouseTables
          /\ \A o \in DOMAIN db : db[o].exists /\ db[o].rows = <<>>
          /\ txn = db

\* C11 witness: create_warehouse_tables has been called twice in a row.
C11_Witness ==
    /\ pc = "create_warehouse_tables"
    /\ Len(log) = 2
    /\ \A o \in WarehouseTables : db[o] = Fresh

----------------------------------------------------------------------------
(* Claim about surrogate ids, checked under SpecMain *)

\* the rows of a frame that carry an id
RowsWithId(frame) == {k \in 1 .. Len(frame) : "id" \in DOMAIN frame[k]}

\* no value occurs twice in a sequence
Distinct(ids) == \A i, j \in 1 .. Len(ids) : ids[i] = ids[j] => i = j

\* C12: a row of a frame carries an id only once insert_data has returned
\* for its table with the batch committed, and then every row k of the frame
\* carries the id the sink gave to the k-th inserted row; insert_data
\* returns one id per input row, in input order; within a run the sink hands
\* no id of a table out twice; and a row refers only to parent rows that
\* carry their id.
C12_IdsAfterCommit ==
    /\ \A t \in SourceTables :
          /\ RowsWithId(Frame(t)) # {} =>
                /\ returned[t].done
                /\ RowsWithId(Frame(t)) = 1 .. Len(Frame(t))
                /\ Len(db[t].rows) = Len(Frame(t))
                /\ \A k \in 1 .. Len(Frame(t)) : Frame(t)[k].id = db[t].rows[k]
          /\ returned[t].done =>
                /\ Len(returned[t].ids) = Len(Frame(t))
                /\ \A k \in 1 .. Len(Frame(t)) : returned[t].ids[k] = db[t].rows[k]
          /\ SchemaCreated => Distinct(txn[t].rows) /\ Distinct(ret)
    /\ \A k \in 1 .. Len(orders) :
          \E u \in RowsWithId(users) : users[u].id = orders[k].user_id
    /\ \A k \in 1 .. Len(order_items) :
          /\ \E o \in RowsWithId(orders) : orders[o].id = order_items[k].order_id
          /\ \E p \in RowsWithId(products) :
                products[p].id = order_items[k].product_id

\* C12 witness: main has ended without error; two users were inserted and
\* carry the ids 1 and 2 in input order, the second order belongs to the
\* second user, and an item refers to an order and a product by their ids.
C12_Witness ==
    /\ pc = "exit"
    /\ err = "none"
    /\ Len(users) = 2
    /\ users[1].id = 1
    /\ users[2].id = 2
    /\ returned["users"].ids = <<1, 2>>
    /\ Len(orders) = 2
    /\ orders[2].user_id = 2
    /\ orders[2].id = 2
    /\ Len(order_items) >= 1
    /\ order_items[1].order_id = 2

----------------------------------------------------------------------------
(* Claim about invalid counts, checked under SpecEntities *)

\* C13: generate_users and generate_products called with count <= 0 do not
\* return a result: they end by raising an error to the caller.
C13_InvalidCountRaises ==
    count <= 0 =>
        /\ pc \notin {"returned_users", "returned_products"}
        /\ pc \in {"generate_users", "generate_products"} \/ err # "none"

----------------------------------------------------------------------------
(* Claim about the day range of generate_orders, checked under SpecOrders *)

\* the first and the last day of the window of a status
C14_Window(st) ==
    IF st = "pending" THEN <<76, 90>>
    ELSE IF st = "shipped" THEN <<61, 85>> ELSE <<11, 75>>

\* whole days from the start of the horizon (90 days before the clock) to the
\* created_at of a user, rounded down
C14_Days(i) ==
    LET u == users[i].created_at
        diff == u.s - (clock.s - 90 * 24 * 3600)
    IN  IF u.us >= clock.us THEN diff \div (24 * 3600)
                            ELSE (diff - 1) \div (24 * 3600)

\* C14: for every status and every user old enough for it (1 day pending,
\* 5 days shipped, 15 days completed and cancelled), the day range
\* max(days from the horizon start to the user's created_at, window start)
\* .. window end is not empty, with the windows 76..90, 61..85 and 11..75;
\* generate_orders never fails on an empty day range, and fails at all only
\* when no user is old enough for the status drawn.
C14_DayRangeNeverEmpty ==
    /\ \A st \in statuses : \A i \in C9_Old(st) :
          Max(C14_Days(i), C14_Window(st)[1]) <= C14_Window(st)[2]
    /\ err # "ValueError"
    /\ pc = "raised" => err = "IndexError" /\ C9_Old(status) = {}

\* C14 witness: an order was produced for a user whose age, not the window
\* start, sets the first day of the range: a completed or cancelled order of
\* a user created 74 whole days after the horizon start, the range being
\* 74..75.
C14_Witness ==
    /\ Len(orders) = 1
    /\ err = "none"
    /\ status \in {"completed", "cancelled"}
    /\ orders[1].status = status
    /\ UserOf(orders[1]) \in C9_Old(status)
    /\ C14_Days(UserOf(orders[1])) = 74

====
